---- MODULE Spec2Model ----
(***************************************************************************)
(* A model of scripts/fetch_doom_classes.py: the persistent cache          *)
(* (CacheManager), the fetcher (fetch_url_with_cache), the per-class       *)
(* metadata loop (fetch_class_data), the category pagination loop          *)
(* (fetch_zdoom_categories_by_type) and the primary-category resolver      *)
(* (generate_header_file).                                                 *)
(*                                                                         *)
(* Time is counted in abstract clock units (datetime.now()); a timedelta   *)
(* is a number of such units.  Python values are strings: a str content is *)
(* itself, None and a non-str JSON value have reserved spellings.          *)
(***************************************************************************)
EXTENDS Integers, Sequences, FiniteSets, TLC

VARIABLES
    now,        \* datetime.now()
    cache,      \* the files of cache_dir: URL -> persisted entry
    stats,      \* CacheManager.stats
    calls,      \* number of operations performed so far (bounds the run)
    last,       \* what the last operation was given, returned, raised and did
    stored,     \* per URL, the argument and the outcome of the latest set()
    gen,        \* generate_header_file: its arguments and how it ended
    ext,        \* fetch_zdoom_categories_by_type: its locals and the pages seen
    batch,      \* fetch_class_data: the classes given, the dicts, the position
    args,       \* main: the options of the command line
    game        \* the DoomGame of the state tests and what the tests hold

vars == <<now, cache, stats, calls, last, stored, gen, ext, batch, args, game>>
cacheVars == <<now, cache, stats, calls, last, stored>>

----------------------------------------------------------------------------
(* Bounds of the model. *)

MaxTime == 2
MaxCalls == 2
MaxCatsPerClass == 2
MaxVisits == 2

----------------------------------------------------------------------------
(* Values. *)

None == "<None>"
NonStr == "<5>"          \* a JSON value that is not a string and is truthy
URLS == {"u1", "u2"}
Contents == {"", "a"}
NoTtl == -1              \* get() called without a ttl (ttl = None)
TtlArgs == {NoTtl} \cup (0..MaxTime)
FailCodes == {22}        \* a non-zero exit status of curl

\* CacheManager.__init__: self.default_ttl = timedelta(hours=default_ttl_hours)
default_ttl == 1

\* CacheManager.__init__: self.stats
ZeroStats == [hits |-> 0, misses |-> 0, expired |-> 0, errors |-> 0]

\* Counting that starts the other counters again.
BumpResetting(st, names) ==
    [k \in DOMAIN st |-> IF k \in names THEN st[k] + 1 ELSE 0]

Bump(st, names) ==
    [k \in DOMAIN st |-> IF k \in names THEN st[k] + 1 ELSE st[k]]

\* What a cache file can hold.  "ok" is the record set() writes.
NoEntry == [kind |-> "none", content |-> None, timestamp |-> 0]
OkEntry(content, t) == [kind |-> "ok", content |-> content, timestamp |-> t]
BadEntry(kind) == [kind |-> kind, content |-> None, timestamp |-> 0]

\* Cache files as a previous run, or anything else, can have left them.
MalformedKinds ==
    { "badjson",         \* not JSON (also a truncated write)
      "notdict",         \* JSON, but a list, a string, a number or null
      "no_ts",           \* an object without "timestamp"
      "bad_ts",          \* "timestamp" is a string that is no ISO date
      "ts_nonstr",       \* "timestamp" is not a string
      "no_content",      \* a valid "timestamp", no "content"
      "content_nonstr",  \* a valid "timestamp", "content" is not a string
      "unreadable" }     \* the file exists and cannot be opened

InitEntries ==
    {NoEntry} \cup {OkEntry(c, 0) : c \in Contents}
              \cup {BadEntry(k) : k \in MalformedKinds}

\* For the fetcher: the entries get() tells apart by what it returns or
\* raises, for one URL; the other URL has no file.
FetcherEntries ==
    {NoEntry} \cup {OkEntry(c, 0) : c \in Contents}
              \cup {BadEntry(k) : k \in {"badjson", "unreadable", "no_content",
                                         "content_nonstr"}}

FetcherCaches == {c \in [URLS -> FetcherEntries] : c["u2"] = NoEntry}

\* The cache directory at process start: one URL's file is anything, the
\* other URL has no file or a well-formed one.
InitCaches ==
    {c \in [URLS -> InitEntries] : c["u2"] \in {NoEntry, OkEntry("a", 0)}}

NoExc == [type |-> "none", url |-> "", rc |-> 0]
Raise(type) == [type |-> type, url |-> "", rc |-> 0]
\* subprocess.CalledProcessError(returncode, cmd) of ["curl", "-s", url]
CalledProcessError(url, rc) == [type |-> "CalledProcessError", url |-> url, rc |-> rc]

----------------------------------------------------------------------------
(* CacheManager *)

\* get(): ttl = ttl or self.default_ttl.  timedelta(0) is falsy.
EffectiveTtl(ttl) == IF ttl = NoTtl \/ ttl = 0 THEN default_ttl ELSE ttl

\* A mutation of IsExpired: an entry whose age equals the TTL is expired.
IsExpiredAtTtl(t, timestamp, ttl) == t - timestamp >= ttl

\* get(): datetime.now() - cached_time > ttl
IsExpired(t, timestamp, ttl) == t - timestamp > ttl

\* get(url, ttl) at time t: the value returned or the exception raised, and
\* the counters after it.
CacheGet(c, st, url, ttl, t) ==
    LET e == c[url]
        Ret(v, names) == [ret |-> v, exc |-> NoExc, stats |-> Bump(st, names)]
        Exc(type) == [ret |-> None, exc |-> Raise(type), stats |-> st]
    IN  CASE e.kind = "none" -> Ret(None, {"misses"})
          [] e.kind = "unreadable" -> Exc("OSError")
          [] e.kind = "badjson" -> Ret(None, {"errors"})
          [] e.kind = "notdict" -> Exc("TypeError")
          [] e.kind = "no_ts" -> Ret(None, {"errors"})
          [] e.kind = "bad_ts" -> Ret(None, {"errors"})
          [] e.kind = "ts_nonstr" -> Exc("TypeError")
          [] OTHER ->
                IF IsExpired(t, e.timestamp, EffectiveTtl(ttl))
                THEN Ret(None, {"expired"})
                ELSE CASE e.kind = "ok" -> Ret(e.content, {"hits"})
                       [] e.kind = "content_nonstr" -> Ret(NonStr, {"hits"})
                       [] OTHER -> Ret(None, {"hits", "errors"})

\* How the write of set() can end: the record is written; open() fails and
\* the file is as it was; the write fails after open() truncated the file.
SetOutcomes == {"written", "open_fails", "write_fails"}

\* A set() that does not count the write that failed.
CacheSetUncounted(c, st, url, content, t, outcome) ==
    CASE outcome = "written" ->
            [cache |-> [c EXCEPT ![url] = OkEntry(content, t)], stats |-> st]
      [] outcome = "open_fails" -> [cache |-> c, stats |-> st]
      [] OTHER ->
            [cache |-> [c EXCEPT ![url] = BadEntry("badjson")], stats |-> st]

\* set(url, content) at time t.
CacheSet(c, st, url, content, t, outcome) ==
    CASE outcome = "written" ->
            [cache |-> [c EXCEPT ![url] = OkEntry(content, t)], stats |-> st]
      [] outcome = "open_fails" ->
            [cache |-> c, stats |-> Bump(st, {"errors"})]
      [] OTHER ->
            [cache |-> [c EXCEPT ![url] = BadEntry("badjson")],
             stats |-> Bump(st, {"errors"})]

\* clear() giving up at the first unlink that fails.
CacheClearStopping(c, undeletable) ==
    IF \E u \in undeletable : c[u] # NoEntry THEN c
    ELSE [u \in DOMAIN c |-> NoEntry]

\* clear(): every file is unlinked, but those whose unlink fails.
CacheClear(c, undeletable) ==
    [u \in DOMAIN c |-> IF u \in undeletable THEN c[u] ELSE NoEntry]

----------------------------------------------------------------------------
(* fetch_url_with_cache *)

\* The outcomes of subprocess.run(["curl", "-s", url], check=True): the
\* page, or CalledProcessError with curl's exit status.
NetOutcomes ==
    {[ok |-> TRUE, content |-> c, rc |-> 0] : c \in Contents}
        \cup {[ok |-> FALSE, content |-> None, rc |-> rc] : rc \in FailCodes}

Raised == "<raised>"
NotCalled == "<not called>"
NoNet == [ok |-> FALSE, content |-> None, rc |-> 0]   \* curl was not run

\* `if cached_content:` -- None and the empty string are falsy.
Truthy(v) == v # None /\ v # ""

\* A mutation of RetrievalFailed: the failed retrieval is tried again.
RetrievalFailedRetried(c, st, url, net, got, trace) ==
    [cache |-> c, stats |-> st, ret |-> None,
     exc |-> CalledProcessError(url, net.rc), got |-> got, net |-> net,
     trace |-> trace \o <<"curl", "curl">>]

\* except subprocess.CalledProcessError: print, raise.
RetrievalFailed(c, st, url, net, got, trace) ==
    [cache |-> c, stats |-> st, ret |-> None,
     exc |-> CalledProcessError(url, net.rc), got |-> got, net |-> net,
     trace |-> Append(trace, "curl")]

\* A mutation of Retrieve: the page is returned and never cached.
RetrieveUncached(c, st, url, t, net, outcome, got, trace) ==
    IF net.ok
    THEN [cache |-> c, stats |-> st, ret |-> net.content, exc |-> NoExc,
          got |-> got, net |-> net, trace |-> Append(trace, "curl")]
    ELSE RetrievalFailed(c, st, url, net, got, trace)

\* The try block: one subprocess.run, then cache_manager.set, then return.
Retrieve(c, st, url, t, net, outcome, got, trace) ==
    IF net.ok
    THEN LET s == CacheSet(c, st, url, net.content, t, outcome)
         IN  [cache |-> s.cache, stats |-> s.stats, ret |-> net.content,
              exc |-> NoExc, got |-> got, net |-> net,
              trace |-> trace \o <<"curl", "set">>]
    ELSE RetrievalFailed(c, st, url, net, got, trace)

\* fetch_url_with_cache(cache_manager, url, force_refresh) at time t, with
\* the outcome of the retrieval and of the write should they happen.
FetchUrlWithCache(c, st, url, force_refresh, t, net, outcome) ==
    IF force_refresh
    THEN Retrieve(c, st, url, t, net, outcome, NotCalled, <<>>)
    ELSE LET g == CacheGet(c, st, url, NoTtl, t)
         IN  IF g.exc # NoExc
             THEN [cache |-> c, stats |-> g.stats, ret |-> None,
                   exc |-> g.exc, got |-> Raised, net |-> NoNet,
                   trace |-> <<"get">>]
             ELSE IF Truthy(g.ret)
             THEN [cache |-> c, stats |-> g.stats, ret |-> g.ret,
                   exc |-> NoExc, got |-> g.ret, net |-> NoNet,
                   trace |-> <<"get">>]
             ELSE Retrieve(c, g.stats, url, t, net, outcome, g.ret, <<"get">>)

----------------------------------------------------------------------------
(* fetch_class_data: one iteration of `for class_name in tqdm(class_names)` *)

\* The page of a class is fetched from its own URL.  The clock does not
\* advance within an iteration.  Both except clauses `continue`: the
\* exception is caught, not raised.
ClassDataIteration(c, st, url, force_refresh, t, net, outcome) ==
    LET g == CacheGet(c, st, url, NoTtl, t)
    IN  IF g.exc # NoExc
        THEN [cache |-> c, stats |-> g.stats, ret |-> None, exc |-> NoExc,
              caught |-> g.exc, got |-> Raised, net |-> NoNet,
              trace |-> <<"get">>]
        ELSE LET f == FetchUrlWithCache(c, g.stats, url, force_refresh,
                                        t, net, outcome)
                 throttle == IF ~Truthy(g.ret) THEN <<"get", "sleep">>
                                               ELSE <<"get">>
             IN  [cache |-> f.cache, stats |-> f.stats, ret |-> f.ret,
                  exc |-> NoExc, caught |-> f.exc, got |-> f.got,
                  net |-> f.net, trace |-> throttle \o f.trace]

----------------
(* The cache and the fetcher as a state machine. *)

\* No call of generate_header_file is under way.
NotGenerating == [phase |-> "none"]

\* No call of fetch_zdoom_categories_by_type is under way.
NotExtracting == [pc |-> "none"]

\* No call of fetch_class_data is under way.
NotBatching == [pc |-> "none"]

\* The options of main that bear on the cache, as parse_args gives them
\* for a command line without any of them.
NoArgs == [force_refresh |-> FALSE, cache_only |-> FALSE]

\* No DoomGame was constructed.
NoGame == [pc |-> "none"]

NoStored == [arg |-> None, persisted |-> FALSE, at |-> 0]

Idle ==
    [op |-> "init", url |-> "", force |-> FALSE, ttl |-> NoTtl, t |-> 0,
     ret |-> None, exc |-> NoExc, caught |-> NoExc, got |-> NotCalled,
     net |-> NoNet, outcome |-> "", trace |-> <<>>, stats0 |-> ZeroStats,
     entry0 |-> NoEntry, removed |-> {}, failed |-> {}]

InitWith(caches, times) ==
    /\ now \in times
    /\ cache \in caches
    /\ stats = ZeroStats
    /\ calls = 0
    /\ last = Idle
    /\ stored = [u \in URLS |-> NoStored]
    /\ gen = NotGenerating
    /\ ext = NotExtracting
    /\ batch = NotBatching
    /\ args = NoArgs
    /\ game = NoGame

Has(trace, event) == \E i \in DOMAIN trace : trace[i] = event

\* The stored record follows every set(): the one of a retrieval too.
StoredAfter(st, url, trace, content, t, outcome) ==
    IF Has(trace, "set")
    THEN [st EXCEPT ![url] = [arg |-> content,
                              persisted |-> (outcome = "written"),
                              at |-> t]]
    ELSE st

\* How the write ended, when there was one.
OutcomeOf(trace, outcome) == IF Has(trace, "set") THEN outcome ELSE ""

Tick ==
    /\ now < MaxTime
    /\ now' = now + 1
    /\ UNCHANGED <<cache, stats, calls, last, stored, gen, ext, batch, args, game>>

\* A get() that unlinks the file of an entry it cannot serve.
GetPurging(url, ttl) ==
    /\ calls < MaxCalls
    /\ \E g \in {CacheGet(cache, stats, url, ttl, now)} :
           /\ stats' = g.stats
           /\ cache' = IF g.ret = None THEN [cache EXCEPT ![url] = NoEntry]
                                       ELSE cache
           /\ last' = [Idle EXCEPT !.op = "get", !.url = url, !.ttl = ttl,
                                   !.t = now, !.ret = g.ret, !.exc = g.exc,
                                   !.trace = <<"get">>, !.stats0 = stats,
                                   !.entry0 = cache[url]]
    /\ calls' = calls + 1
    /\ UNCHANGED <<now, stored, gen, ext, batch, args, game>>

Get(url, ttl) ==
    /\ calls < MaxCalls
    /\ \E g \in {CacheGet(cache, stats, url, ttl, now)} :
           /\ stats' = g.stats
           /\ last' = [Idle EXCEPT !.op = "get", !.url = url, !.ttl = ttl,
                                   !.t = now, !.ret = g.ret, !.exc = g.exc,
                                   !.trace = <<"get">>, !.stats0 = stats,
                                   !.entry0 = cache[url]]
    /\ calls' = calls + 1
    /\ UNCHANGED <<now, cache, stored, gen, ext, batch, args, game>>

Set(url, content, outcome) ==
    /\ calls < MaxCalls
    /\ \E s \in {CacheSet(cache, stats, url, content, now, outcome)} :
           /\ cache' = s.cache
           /\ stats' = s.stats
    /\ last' = [Idle EXCEPT !.op = "set", !.url = url, !.t = now,
                            !.outcome = outcome, !.trace = <<"set">>,
                            !.stats0 = stats, !.entry0 = cache[url]]
    /\ stored' = StoredAfter(stored, url, <<"set">>, content, now, outcome)
    /\ calls' = calls + 1
    /\ UNCHANGED <<now, gen, ext, batch, args, game>>

Clear(undeletable) ==
    /\ calls < MaxCalls
    /\ cache' = CacheClear(cache, undeletable)
    /\ last' = [Idle EXCEPT
                    !.op = "clear", !.t = now, !.stats0 = stats,
                    !.removed = {u \in URLS : cache[u] # NoEntry
                                    /\ CacheClear(cache, undeletable)[u] = NoEntry},
                    !.failed = {u \in undeletable : cache[u] # NoEntry}]
    /\ stored' = [u \in URLS |-> NoStored]
    /\ calls' = calls + 1
    /\ UNCHANGED <<now, stats, gen, ext, batch, args, game>>

Fetch(url, force_refresh, net, outcome) ==
    /\ calls < MaxCalls
    /\ \E f \in {FetchUrlWithCache(cache, stats, url, force_refresh, now,
                                    net, outcome)} :
           /\ cache' = f.cache
           /\ stats' = f.stats
           /\ last' = [Idle EXCEPT !.op = "fetch", !.url = url,
                                   !.force = force_refresh, !.t = now,
                                   !.ret = f.ret, !.exc = f.exc,
                                   !.got = f.got, !.net = f.net,
                                   !.outcome = OutcomeOf(f.trace, outcome),
                                   !.trace = f.trace, !.stats0 = stats,
                                   !.entry0 = cache[url]]
           /\ stored' = StoredAfter(stored, url, f.trace, f.ret, now, outcome)
    /\ calls' = calls + 1
    /\ UNCHANGED <<now, gen, ext, batch, args, game>>

ClassData(url, force_refresh, net, outcome) ==
    /\ calls < MaxCalls
    /\ \E f \in {ClassDataIteration(cache, stats, url, force_refresh, now,
                                     net, outcome)} :
           /\ cache' = f.cache
           /\ stats' = f.stats
           /\ last' = [Idle EXCEPT !.op = "class_data", !.url = url,
                                   !.force = force_refresh, !.t = now,
                                   !.ret = f.ret, !.exc = f.exc,
                                   !.caught = f.caught, !.got = f.got,
                                   !.net = f.net,
                                   !.outcome = OutcomeOf(f.trace, outcome),
                                   !.trace = f.trace, !.stats0 = stats,
                                   !.entry0 = cache[url]]
           /\ stored' = StoredAfter(stored, url, f.trace, f.ret, now, outcome)
    /\ calls' = calls + 1
    /\ UNCHANGED <<now, gen, ext, batch, args, game>>

\* The cache alone: get, set and clear as time passes.
CacheNext ==
    \/ Tick
    \/ \E u \in URLS, ttl \in TtlArgs : Get(u, ttl)
    \/ \E u \in URLS, c \in Contents, o \in SetOutcomes : Set(u, c, o)
    \/ \E bad \in SUBSET URLS : Clear(bad)

\* The clock starts at the time the files were written.
CacheInit == InitWith(InitCaches, {0})

SpecCache == CacheInit /\ [][CacheNext]_vars

\* The fetcher over the cache.
FetchNext ==
    \/ \E u \in URLS, fr \in BOOLEAN, net \in NetOutcomes, o \in SetOutcomes :
            Fetch(u, fr, net, o)

\* A run is short against a TTL: the clock stands still during it, and the
\* files it finds are of any age.
FetchInit == InitWith(FetcherCaches, 0..MaxTime)

SpecFetch == FetchInit /\ [][FetchNext]_vars

\* The per-class metadata loop over the fetcher.
ClassDataNext ==
    \/ \E u \in URLS, fr \in BOOLEAN, net \in NetOutcomes, o \in SetOutcomes :
            ClassData(u, fr, net, o)

ClassDataInit == InitWith(FetcherCaches, 0..MaxTime)

SpecClassData == ClassDataInit /\ [][ClassDataNext]_vars

\* C19: each of the counters hits, misses, expired and errors never
\* decreases over get, set, clear and fetch; clear leaves them as they are.
C19_CountersNeverDecrease ==
    [][ /\ \A k \in DOMAIN stats : stats'[k] >= stats[k]
        /\ last'.op = "clear" => stats' = stats ]_vars

\* A clear() after a hit was counted: the count is still there.
C19_Witness ==
    /\ last.op = "clear"
    /\ last.stats0.hits > 0
    /\ stats = last.stats0

\* C20: after a clear() in which no unlink failed no entry is left; a get of
\* a URL without an entry returns nothing and counts a miss, and only a
\* set for the URL brings an entry back; an unlink that fails stops neither
\* the other unlinks nor the caller.
C20_ClearLeavesNothing ==
    [][ /\ (calls' # calls /\ last'.op = "clear" /\ last'.failed = {}) =>
              \A u \in URLS : cache'[u] = NoEntry
        /\ (calls' # calls /\ last'.op = "clear") =>
              /\ last'.exc = NoExc
              /\ \A u \in URLS :
                    cache'[u] = (IF u \in last'.failed THEN cache[u] ELSE NoEntry)
        /\ \A u \in URLS :
              ( /\ calls' # calls /\ last'.op = "get" /\ last'.url = u
                /\ cache[u] = NoEntry ) =>
                  /\ last'.ret = None /\ last'.exc = NoExc
                  /\ stats' = Bump(stats, {"misses"})
        /\ \A u \in URLS :
              (cache[u] = NoEntry /\ cache'[u] # NoEntry) =>
                  last'.url = u /\ Has(last'.trace, "set") ]_vars

\* A clear() that removed one entry although the unlink of another failed.
C20_Witness ==
    /\ last.op = "clear"
    /\ last.failed # {} /\ last.removed # {}
    /\ \A u \in last.removed : cache[u] = NoEntry

\* The counters after the get() with which the last fetch began, if it
\* began with one.
StatsAfterGetOfFetch ==
    IF Has(last.trace, "get")
    THEN CacheGet([u \in URLS |-> last.entry0], last.stats0, last.url,
                  NoTtl, last.t).stats
    ELSE last.stats0

\* C21: when the write inside set() fails, set counts one error and
\* returns; nothing is raised, and a fetch whose retrieval succeeded returns
\* the content retrieved.
C21_FailedSetCountedNotRaised ==
    (Has(last.trace, "set") /\ last.outcome # "written") =>
        /\ last.exc = NoExc
        /\ last.op = "set" => stats = Bump(last.stats0, {"errors"})
        /\ last.op = "fetch" =>
              /\ last.net.ok /\ last.ret = last.net.content
              /\ stats = Bump(StatsAfterGetOfFetch, {"errors"})

\* A fetch returned the page it retrieved although the write of the entry
\* failed half way.
C21_Witness ==
    /\ last.op = "fetch" /\ last.outcome = "write_fails"
    /\ last.ret = "a" /\ last.exc = NoExc
    /\ stats.errors = last.stats0.errors + 1

\* C27: an entry is removed only by clear(); a get(), also one that finds
\* the entry expired or malformed, and a fetch that fails leave every entry
\* as it was; a set() and a fetch that succeeds leave the entries of every
\* URL but their own as they were.
C27_OnlyClearRemoves ==
    [][ calls' # calls =>
          /\ (\E u \in URLS : cache[u] # NoEntry /\ cache'[u] = NoEntry) =>
                last'.op = "clear"
          /\ last'.op = "get" => cache' = cache
          /\ (last'.op = "fetch" /\ last'.exc # NoExc) => cache' = cache
          /\ last'.op \in {"set", "fetch"} =>
                \A u \in URLS \ {last'.url} : cache'[u] = cache[u] ]_vars

\* A get() found the entry expired and the entry is still there.
C27_Witness ==
    /\ last.op = "get" /\ last.ret = None /\ last.exc = NoExc
    /\ last.entry0.kind = "ok"
    /\ stats.expired = last.stats0.expired + 1
    /\ cache[last.url] = last.entry0

\* C28: a get() that returns adds one to exactly one of the four counters
\* and leaves the other three as they were, and the counter is hits if and
\* only if content is returned.
C28_GetCountsExactlyOne ==
    (last.op = "get" /\ last.exc = NoExc) =>
        /\ \E k \in {"hits", "misses", "expired", "errors"} :
              stats = Bump(last.stats0, {k})
        /\ (stats.hits = last.stats0.hits + 1) <=> (last.ret # None)

\* get, set, clear and fetch in any order, within a run that is short
\* against a TTL.
OpsNext ==
    \/ \E u \in URLS, ttl \in TtlArgs : Get(u, ttl)
    \/ \E u \in URLS, c \in Contents, o \in SetOutcomes : Set(u, c, o)
    \/ \E bad \in SUBSET URLS : Clear(bad)
    \/ \E u \in URLS, fr \in BOOLEAN, net \in NetOutcomes, o \in SetOutcomes :
            Fetch(u, fr, net, o)

OpsInit == InitWith(FetcherCaches, 0..MaxTime)

SpecOps == OpsInit /\ [][OpsNext]_vars

----------------------------------------------------------------------------
(* Properties of the cache, the fetcher and the metadata loop. *)

Count(trace, event) == Cardinality({i \in DOMAIN trace : trace[i] = event})

\* The age of a file at the time of the last operation.
AgeAt(timestamp) == last.t - timestamp

\* The TTL a caller of get() asks for.
AskedTtl(ttl) == IF ttl = NoTtl THEN default_ttl ELSE ttl

\* C2: in an iteration of fetch_class_data every external retrieval is
\* preceded by the sleep of that iteration, whatever force_refresh and the
\* state of the cache.
C2_ThrottleNeverBypassed ==
    last.op = "class_data" =>
        \A i \in DOMAIN last.trace :
            last.trace[i] = "curl" =>
                \E j \in 1..(i - 1) : last.trace[j] = "sleep"

\* C4: fetch_url_with_cache without force_refresh, on a URL whose entry is
\* well-formed and not expired (whatever its content), returns the cached
\* content and retrieves nothing.
C4_HitReturnsCached ==
    ( /\ last.op = "fetch"
      /\ ~last.force
      /\ last.entry0.kind = "ok"
      /\ AgeAt(last.entry0.timestamp) <= default_ttl )
    => /\ last.ret = last.entry0.content
       /\ last.exc = NoExc
       /\ ~Has(last.trace, "curl")

\* The call of fetch_url_with_cache that has to retrieve: force_refresh, or
\* get() returned absent.
C5_MustRetrieve == last.op = "fetch" /\ (last.force \/ last.got = None)

\* C5 as stated: on a miss or a forced refresh the call retrieves exactly
\* once, and when the retrieval succeeds the entry of the URL holds the
\* retrieved content, stamped with the time of the call, when it returns.
C5_RetrievalFillsCache ==
    C5_MustRetrieve =>
        /\ Count(last.trace, "curl") = 1
        /\ last.net.ok =>
            /\ last.exc = NoExc /\ last.ret = last.net.content
            /\ cache[last.url] = OkEntry(last.net.content, last.t)

\* C5 amended: the entry holds the retrieved content when the write of set()
\* succeeds; when it fails the content is returned all the same and the
\* failure is counted in `errors`.
C5_RetrievalFillsCacheWhenWritten ==
    C5_MustRetrieve =>
        /\ Count(last.trace, "curl") = 1
        /\ last.net.ok =>
            /\ last.exc = NoExc /\ last.ret = last.net.content
            /\ \/ /\ last.outcome = "written"
                  /\ cache[last.url] = OkEntry(last.net.content, last.t)
               \/ /\ last.outcome \in SetOutcomes \ {"written"}
                  /\ cache[last.url] \in {last.entry0, BadEntry("badjson")}
                  /\ stats.errors > last.stats0.errors

C5_Witness ==
    /\ C5_MustRetrieve
    /\ last.got = None
    /\ last.entry0.kind = "ok"
    /\ last.net.ok
    /\ last.outcome = "written"
    /\ cache[last.url] = OkEntry(last.net.content, last.t)
    /\ cache[last.url] # last.entry0

\* The latest set() of the URL of the last operation, no clear() since.
C6_LatestSet == stored[last.url]

C7_PassedTtlDecides ==
    (last.op = "get" /\ last.ret # None) =>
        /\ last.entry0.kind # "none"
        /\ AgeAt(last.entry0.timestamp) <= AskedTtl(last.ttl)

\* C8: get() of a malformed or unreadable entry returns absent, adds one to
\* `errors` and raises nothing.
C8_MalformedIsAbsent ==
    (last.op = "get" /\ last.entry0.kind \in MalformedKinds) =>
        /\ last.exc = NoExc
        /\ last.ret = None
        /\ stats.errors = last.stats0.errors + 1

\* C9: when the retrieval fails fetch_url_with_cache raises an error that
\* carries the URL and curl's exit status, after one attempt and no more,
\* and the call writes nothing to the cache.
C9_FailureRaisesOnce ==
    [][ (last'.op = "fetch" /\ last'.net.rc # 0) =>
            /\ last'.exc = CalledProcessError(last'.url, last'.net.rc)
            /\ last'.ret = None
            /\ Count(last'.trace, "curl") = 1
            /\ ~Has(last'.trace, "set")
            /\ cache' = cache ]_vars

\* A failed refresh of an entry that is there: the error is raised and the
\* entry is as it was.
C9_Witness ==
    /\ last.op = "fetch" /\ last.net.rc # 0
    /\ last.exc.type = "CalledProcessError" /\ last.exc.url = last.url
    /\ last.entry0.kind = "ok"
    /\ cache[last.url] = last.entry0

----------------------------------------------------------------------------
(* generate_header_file: the primary-category resolver *)

\* The categories and the classes of the wiki that the model draws from.
CategoryNames == {"Breakable", "Gore", "Monster", "Player", "SFX"}
RawClasses ==
    {"Gibs", "HeadCandles", "PlayerPawn", "ZCorpseSitting", "ZombieMan",
     "Zombieman"}

marine_chainsaw_vzd == "marinechainsawvzd"

\* str.casefold() of a class name.
Casefold(name) ==
    CASE name = "Gibs" -> "gibs"
      [] name = "HeadCandles" -> "headcandles"
      [] name = "PlayerPawn" -> "playerpawn"
      [] name = "ZCorpseSitting" -> "zcorpsesitting"
      [] name = "ZombieMan" -> "zombieman"
      [] name = "Zombieman" -> "zombieman"
      [] name = "MarineChainsawVzd" -> "marinechainsawvzd"
      [] OTHER -> name

\* The category key: the first "_x" becomes "X" (and every other "_x" of
\* the same letter); a name without an underscore past its first character
\* is kept.
NormCategory(category) ==
    CASE category = "Key_item" -> "KeyItem"
      [] category = "Light_source" -> "LightSource"
      [] OTHER -> category

\* The strings of the model in Python's order of str (by code point).
CodePointOrder ==
    << "Breakable", "Gibs", "Gore", "HeadCandles", "KeyItem", "Key_item",
       "LightSource", "Light_source", "MarineChainsawVzd", "Monster",
       "Player", "PlayerPawn", "SFX", "Self", "ZCorpseSitting", "ZombieMan",
       "Zombieman",
       "gibs", "headcandles", "marinechainsawvzd", "playerpawn",
       "zcorpsesitting", "zombieman" >>

Rank(str) == CHOOSE i \in DOMAIN CodePointOrder : CodePointOrder[i] = str

\* sorted(list) and list.sort()
Sorted(list) == SortSeq(list, LAMBDA a, b : Rank(a) < Rank(b))

RECURSIVE SortedListOf(_)
\* sorted(list(set))
SortedListOf(set) ==
    IF set = {} THEN <<>>
    ELSE LET least == CHOOSE x \in set : \A y \in set : Rank(x) <= Rank(y)
         IN  <<least>> \o SortedListOf(set \ {least})

\* x in list
ListHas(list, x) == \E i \in DOMAIN list : list[i] = x

\* list.remove(x), of a list that holds x: the first x goes.
RemoveFirst(list, x) ==
    LET i == CHOOSE i \in DOMAIN list :
                list[i] = x /\ \A j \in 1..(i - 1) : list[j] # x
    IN  SubSeq(list, 1, i - 1) \o SubSeq(list, i + 1, Len(list))

\* casefolded_class_names, the synthetic class appended when absent.
CasefoldedClassNames(class_names) ==
    LET folded == [i \in DOMAIN class_names |-> Casefold(class_names[i])]
    IN  IF ListHas(folded, marine_chainsaw_vzd) THEN folded
        ELSE Append(folded, marine_chainsaw_vzd)

\* casefolded_categories: a dict from the category keys; of two categories
\* with one key the later of the dict stays (here: the greater name).
CasefoldedCategories(categories) ==
    [key \in {NormCategory(c) : c \in DOMAIN categories} |->
        LET from == CHOOSE c \in DOMAIN categories :
                        /\ NormCategory(c) = key
                        /\ \A d \in DOMAIN categories :
                               NormCategory(d) = key => Rank(d) <= Rank(c)
        IN  [i \in DOMAIN categories[from] |-> Casefold(categories[from][i])]]

\* The injection without `.sort()`: the synthetic class stays last.
WithMarineChainsawAppended(cats) ==
    IF "Monster" \in DOMAIN cats /\ ~ListHas(cats["Monster"], marine_chainsaw_vzd)
    THEN [cats EXCEPT !["Monster"] = Append(@, marine_chainsaw_vzd)]
    ELSE cats

\* The synthetic class joins "Monster", if that category exists.
WithMarineChainsaw(cats) ==
    IF "Monster" \in DOMAIN cats /\ ~ListHas(cats["Monster"], marine_chainsaw_vzd)
    THEN [cats EXCEPT !["Monster"] = Sorted(Append(@, marine_chainsaw_vzd))]
    ELSE cats

\* The three hard-coded casefolded_categories[category].remove(class).
Overrides ==
    << [category |-> "Gore", class |-> "headcandles"],
       [category |-> "Player", class |-> "playerpawn"],
       [category |-> "Breakable", class |-> "zcorpsesitting"] >>

RECURSIVE ApplyOverrides(_, _)
\* The removals from the i-th on, in order: dict[category] raises KeyError
\* for a category that is not there, list.remove ValueError for a class that
\* is not in the list.
ApplyOverrides(cats, i) ==
    IF i > Len(Overrides)
    THEN [exc |-> "none", what |-> "", cats |-> cats]
    ELSE LET o == Overrides[i]
         IN  IF o.category \notin DOMAIN cats
             THEN [exc |-> "KeyError", what |-> o.category, cats |-> cats]
             ELSE IF ~ListHas(cats[o.category], o.class)
             THEN [exc |-> "ValueError", what |-> o.class, cats |-> cats]
             ELSE ApplyOverrides(
                    [cats EXCEPT ![o.category] = RemoveFirst(@, o.class)],
                    i + 1)

\* appearance = sum(class_name in class_list for class_list in ...values())
Appearance(cats, class_name) ==
    Cardinality({c \in DOMAIN cats : ListHas(cats[c], class_name)})

\* The resolver without its check of the partition.
GenerateHeaderFileUnchecked(class_names, categories) ==
    LET names == CasefoldedClassNames(class_names)
        o == ApplyOverrides(
                WithMarineChainsaw(CasefoldedCategories(categories)), 1)
    IN  IF o.exc # "none"
        THEN [status |-> o.exc, what |-> o.what, count |-> 0,
              names |-> names, cats |-> o.cats]
        ELSE [status |-> "ok", what |-> "", count |-> 1,
              names |-> names, cats |-> o.cats]

\* generate_header_file(class_names, categories) up to the check of the
\* partition: how it ends, and the categories it goes on with.
GenerateHeaderFile(class_names, categories) ==
    LET names == CasefoldedClassNames(class_names)
        o == ApplyOverrides(
                WithMarineChainsaw(CasefoldedCategories(categories)), 1)
        failing == {i \in DOMAIN names : Appearance(o.cats, names[i]) # 1}
        first == CHOOSE i \in failing : \A j \in failing : i <= j
    IN  IF o.exc # "none"
        THEN [status |-> o.exc, what |-> o.what, count |-> 0,
              names |-> names, cats |-> o.cats]
        ELSE IF failing # {}
        THEN [status |-> "AssertionError", what |-> names[first],
              count |-> Appearance(o.cats, names[first]),
              names |-> names, cats |-> o.cats]
        ELSE [status |-> "ok", what |-> "", count |-> 1,
              names |-> names, cats |-> o.cats]

\* The rest of generate_header_file: the text it writes.

RECURSIVE Flatten(_)
\* The concatenation of a list of lists.
Flatten(lists) ==
    IF lists = <<>> THEN <<>> ELSE Head(lists) \o Flatten(Tail(lists))

\* The strings of `categories`: for each key in sorted order the key, and
\* before the key "SFX" the string "Self".
EmittedCategories(cats) ==
    LET keys == SortedListOf(DOMAIN cats)
    IN  Flatten([i \in DOMAIN keys |->
                    IF keys[i] = "SFX" THEN <<"Self", "SFX">> ELSE <<keys[i]>>])

\* The entries of `classToCategory`: for each key in sorted order, the
\* classes of its list in the order of the list.
EmittedMapping(cats) ==
    LET keys == SortedListOf(DOMAIN cats)
    IN  Flatten([i \in DOMAIN keys |->
                    [j \in DOMAIN cats[keys[i]] |->
                        [class |-> cats[keys[i]][j], category |-> keys[i]]]])

HeaderFile(cats) ==
    [written |-> TRUE, categories |-> EmittedCategories(cats),
     classToCategory |-> EmittedMapping(cats)]

----------------------------------------------------------------------------
(* main: from the categories found to the header file *)

\* The mappings fetch_zdoom_categories_by_type can return: per class, the
\* categories whose listing names it; a category with no class is not in
\* the mapping, and every list is sorted.
Listings ==
    LET some == {s \in SUBSET (CategoryNames \ {"SFX"}) :
                    Cardinality(s) <= MaxCatsPerClass}
    IN  {[k \in RawClasses |->
            CASE k = "Gibs" -> g
              [] k = "HeadCandles" -> h
              [] k = "PlayerPawn" -> p
              [] k = "ZCorpseSitting" -> c
              [] k = "ZombieMan" -> m
              [] OTHER -> z] :
                g \in {{}, {"Gore"}, {"SFX"}},
                h \in SUBSET {"Gore", "Monster"},
                p \in SUBSET {"Monster", "Player"},
                c \in SUBSET {"Breakable", "Gore"},
                m \in some,
                z \in {{}, {"Monster"}}}

CategoriesOf(listing) ==
    [c \in {c \in CategoryNames : \E k \in RawClasses : c \in listing[k]} |->
        SortedListOf({k \in RawClasses : c \in listing[k]})]

\* all_class_names, then class_names = sorted(list(all_class_names))
FlattenedClassNames(categories) ==
    SortedListOf(UNION {{categories[c][i] : i \in DOMAIN categories[c]} :
                            c \in DOMAIN categories})

NoResult ==
    [status |-> "", what |-> "", count |-> 0, names |-> <<>>, cats |-> <<>>]

\* No header file has been written.
NoHeader == [written |-> FALSE, categories |-> <<>>, classToCategory |-> <<>>]

\* main has not ended yet.
Running == -1

\* How `cp` ends when --copy-to is given; "" when it is not given.
CopyOutcomes == {"", "copied", "cp_fails"}

\* generate_header_file has not been called.
NoObjects == [class_names |-> <<>>, categories |-> <<>>]

\* The caller's objects had the resolver worked on them and not on copies:
\* the injected class would be in the caller's "Monster" list.
CallerObjectsAliased(class_names, categories) ==
    [class_names |-> class_names,
     categories |->
        IF "Monster" \in DOMAIN categories
        THEN [categories EXCEPT !["Monster"] = Append(@, marine_chainsaw_vzd)]
        ELSE categories]

\* The caller's list and dict after a call: the list comprehensions of the
\* resolver build new lists and a new dict, and every append, sort and
\* remove is on those.
CallerObjectsAfter(class_names, categories) ==
    [class_names |-> class_names, categories |-> categories]

ResolveInit ==
    /\ now = 0
    /\ cache = [u \in URLS |-> NoEntry]
    /\ stats = ZeroStats
    /\ calls = 0
    /\ last = Idle
    /\ stored = [u \in URLS |-> NoStored]
    /\ ext = NotExtracting
    /\ batch = NotBatching
    /\ args = NoArgs
    /\ game = NoGame
    /\ \E l \in Listings :
          gen = [phase |-> "fetched", categories |-> CategoriesOf(l),
                 class_names |-> <<>>, result |-> NoResult,
                 header |-> NoHeader, after |-> NoObjects,
                 again |-> NoHeader, exit_code |-> Running, copied |-> FALSE]

\* main going on with an empty mapping as if it had categories.
NoCategoriesIgnored ==
    /\ gen.phase = "fetched"
    /\ DOMAIN gen.categories = {}
    /\ gen' = [gen EXCEPT !.phase = "generated", !.result.status = "ok",
                          !.header = HeaderFile(gen.categories)]
    /\ UNCHANGED <<cacheVars, ext, batch, args, game>>

\* `if not categories:` -- main exits with status 1.
NoCategories ==
    /\ gen.phase = "fetched"
    /\ DOMAIN gen.categories = {}
    /\ gen' = [gen EXCEPT !.phase = "exit", !.result.status = "SystemExit",
                          !.exit_code = 1]
    /\ UNCHANGED <<cacheVars, ext, batch, args, game>>

\* The flattening and the call of generate_header_file, which writes the
\* header when the partition is valid and the file can be opened, and then
\* the copy to --copy-to; every exception is caught by main, which then
\* exits with status 1.
Generate(writable, copy) ==
    /\ gen.phase = "fetched"
    /\ DOMAIN gen.categories # {}
    /\ \E names \in {FlattenedClassNames(gen.categories)} :
       \E r \in {GenerateHeaderFile(names, gen.categories)} :
          LET done == r.status = "ok" /\ writable
          IN  /\ ~done => copy = ""
              /\ gen' = [gen EXCEPT
                    !.phase = "generated", !.class_names = names,
                    !.result = IF r.status = "ok" /\ ~writable
                               THEN [r EXCEPT !.status = "OSError"] ELSE r,
                    !.header = IF done THEN HeaderFile(r.cats) ELSE NoHeader,
                    !.after = CallerObjectsAfter(names, gen.categories),
                    !.copied = done /\ copy = "copied",
                    !.exit_code = IF done /\ copy # "cp_fails" THEN 0 ELSE 1]
    /\ UNCHANGED <<cacheVars, ext, batch, args, game>>

\* A second call of generate_header_file by a caller that passes the same
\* list and the same dict again.
GenerateAgain(writable) ==
    /\ gen.phase = "generated"
    /\ \E r \in {GenerateHeaderFile(gen.after.class_names,
                                      gen.after.categories)} :
          gen' = [gen EXCEPT
                    !.phase = "regenerated",
                    !.again = IF r.status = "ok" /\ writable
                              THEN HeaderFile(r.cats) ELSE NoHeader,
                    !.after = CallerObjectsAfter(gen.after.class_names,
                                                 gen.after.categories)]
    /\ UNCHANGED <<cacheVars, ext, batch, args, game>>

ResolveNext ==
    \/ NoCategories
    \/ \E writable \in BOOLEAN, copy \in CopyOutcomes : Generate(writable, copy)
    \/ \E writable \in BOOLEAN : GenerateAgain(writable)

SpecResolve == ResolveInit /\ [][ResolveNext]_vars

\* The categories as the resolver is meant to leave them: each override
\* takes its class out of its category where the class is listed there.
Intended(categories) ==
    LET cats == WithMarineChainsaw(CasefoldedCategories(categories))
        Over(c) == {i \in DOMAIN Overrides :
                        /\ Overrides[i].category = c
                        /\ ListHas(cats[c], Overrides[i].class)}
    IN  [c \in DOMAIN cats |->
            IF Over(c) = {} THEN cats[c]
            ELSE RemoveFirst(cats[c], Overrides[CHOOSE i \in Over(c) : TRUE].class)]

Universe == {gen.result.names[i] : i \in DOMAIN gen.result.names}

Misplaced ==
    {k \in Universe : Appearance(Intended(gen.categories), k) # 1}

\* C1: generate_header_file completes only if every class of the universe
\* is in exactly one category after casefolding, injection and overrides;
\* when some class is in none or in several, it raises the error that names
\* such a class and its count.
C1_PartitionOrNamedError ==
    gen.phase = "generated" =>
        /\ gen.result.status = "ok" => Misplaced = {}
        /\ Misplaced # {} =>
              /\ gen.result.status = "AssertionError"
              /\ gen.result.what \in Misplaced
              /\ gen.result.count =
                    Appearance(Intended(gen.categories), gen.result.what)

\* C10: a class named by an override and listed in the override's category
\* and in one other category is left in the other category only, and the
\* validation passes, also when the categories or classes of the other
\* overrides are not in the mapping (every other class being in one
\* category).
C10_OverrideLeavesOneCategory ==
    gen.phase = "generated" =>
        \A i \in DOMAIN Overrides :
            LET o == Overrides[i]
                cats == WithMarineChainsaw(CasefoldedCategories(gen.categories))
            IN  ( /\ o.category \in DOMAIN cats
                  /\ ListHas(cats[o.category], o.class)
                  /\ Appearance(cats, o.class) = 2
                  /\ Misplaced = {} )
                => /\ gen.result.status = "ok"
                   /\ ~ListHas(gen.result.cats[o.category], o.class)
                   /\ Appearance(gen.result.cats, o.class) = 1

\* The name under which a category is to be shown in the emitted list.
DisplayName(category) == IF category = "SFX" THEN "Self" ELSE category

Ascending(list) ==
    \A i, j \in DOMAIN list : i < j => Rank(list[i]) <= Rank(list[j])

StrictlyAscending(list) ==
    \A i, j \in DOMAIN list : i < j => Rank(list[i]) < Rank(list[j])

Occurrences(list, x) == Cardinality({i \in DOMAIN list : list[i] = x})

\* C11: the emitted category list is sorted, without duplicates, and has
\* one entry per category of the partition, the category "SFX" under its
\* display name "Self" in place of its key; the mapping keeps the key.
C11_CategoryListSortedRenamed ==
    gen.header.written =>
        LET list == gen.header.categories
            keys == DOMAIN gen.result.cats
        IN  /\ StrictlyAscending(list)
            /\ Len(list) = Cardinality(keys)
            /\ {list[i] : i \in DOMAIN list} = {DisplayName(k) : k \in keys}
            /\ \A i \in DOMAIN gen.header.classToCategory :
                    gen.header.classToCategory[i].category \in keys

\* C12: the entries of the emitted class-to-category mapping are in
\* ascending order of class name across the whole mapping.
C12_MappingSortedByClass ==
    gen.header.written =>
        Ascending([i \in DOMAIN gen.header.classToCategory |->
                      gen.header.classToCategory[i].class])

\* C13: in every emitted header each class of the universe is a key of the
\* class-to-category mapping exactly once, also when a member list names a
\* class more than once.
C13_MappingTotalSingleValued ==
    gen.header.written =>
        \A k \in Universe :
            Cardinality({i \in DOMAIN gen.header.classToCategory :
                            gen.header.classToCategory[i].class = k}) = 1

\* The synthetic class is in none of the lists and is none of the classes
\* that main passes to generate_header_file.
MarineAbsentFromInput ==
    /\ \A i \in DOMAIN gen.class_names :
            Casefold(gen.class_names[i]) # marine_chainsaw_vzd
    /\ \A c \in DOMAIN gen.categories : \A i \in DOMAIN gen.categories[c] :
            Casefold(gen.categories[c][i]) # marine_chainsaw_vzd

\* The synthetic class is once in the sorted list of "Monster", and an
\* emitted mapping has it under "Monster" and under no other category.
MarineInMonster ==
    /\ "Monster" \in DOMAIN gen.result.cats
    /\ Occurrences(gen.result.cats["Monster"], marine_chainsaw_vzd) = 1
    /\ Ascending(gen.result.cats["Monster"])
    /\ gen.header.written =>
          /\ \E i \in DOMAIN gen.header.classToCategory :
                gen.header.classToCategory[i] =
                    [class |-> marine_chainsaw_vzd, category |-> "Monster"]
          /\ \A i \in DOMAIN gen.header.classToCategory :
                gen.header.classToCategory[i].class = marine_chainsaw_vzd
                    => gen.header.classToCategory[i].category = "Monster"

\* C14 as stated: whenever the synthetic class is absent from the input the
\* resolver injects it into "Monster", whose list then has it once and is
\* sorted, and every emitted header maps it to "Monster".
C14_MarineInjected ==
    (gen.phase = "generated" /\ MarineAbsentFromInput) => MarineInMonster

\* C14: when the synthetic class is absent from the input and the input has
\* a category "Monster", the list of "Monster" has the synthetic class once
\* and is sorted after the injection, and every emitted header maps the
\* synthetic class to "Monster".
C14_MarineInjectedIntoExistingMonster ==
    ( /\ gen.phase = "generated" /\ MarineAbsentFromInput
      /\ "Monster" \in DOMAIN gen.categories ) => MarineInMonster

\* A header was written whose "Monster" list has the injected class before
\* a class of the wiki.
C14_Witness ==
    /\ gen.phase = "generated" /\ MarineAbsentFromInput
    /\ gen.header.written
    /\ ListHas(gen.result.cats["Monster"], "zombieman")
    /\ \E i \in DOMAIN gen.header.classToCategory :
          gen.header.classToCategory[i] =
              [class |-> marine_chainsaw_vzd, category |-> "Monster"]

C26_NoWriteWithoutValidPartition ==
    gen.phase \in {"generated", "regenerated"} =>
        /\ gen.header.written =>
              \A k \in Universe : Appearance(gen.result.cats, k) = 1
        /\ gen.copied => gen.header.written
        /\ Misplaced # {} =>
              /\ ~gen.header.written /\ ~gen.copied
              /\ gen.exit_code = 1

\* A run whose overrides all applied ended on the assertion, with nothing
\* written.
C26_Witness ==
    /\ gen.phase = "generated"
    /\ gen.result.status = "AssertionError"
    /\ Misplaced # {}
    /\ ~gen.header.written /\ gen.exit_code = 1

----------------------------------------------------------------------------
(* fetch_zdoom_categories_by_type: the categories and their paginated lists *)

\* re.match(r"^[A-Za-z0-9_]+$", class_name) on the names the model links to.
ValidClassName(name) == name \in RawClasses

\* The page URLs of a category: its first page, and two pages that
\* "next page" links with pagefrom= can name.
FirstPage == "Category"
NextPages == {"pagefrom=1", "pagefrom=2"}
PageUrls == {FirstPage} \cup NextPages
NoLink == "<no next page>"

\* The names that the links of a listing page's mw-pages section hold.
MemberLists == {<<>>, <<"ZombieMan">>, <<"Gibs", "Zombie%20Man">>}

\* What fetch_url_with_cache gives for a category page: it raises, or a page
\* without the mw-category-generated div, or with it and without mw-pages,
\* or a listing with its class links and its next-page link.
PageOf(kind, members, next) == [kind |-> kind, members |-> members, next |-> next]
Unknown == PageOf("unknown", <<>>, NoLink)
Pages ==
    {PageOf(k, <<>>, NoLink) : k \in {"unreachable", "no_generated", "no_pages"}}
        \cup {PageOf("listing", m, n) :
                m \in MemberLists, n \in NextPages \cup {NoLink}}

\* What the index page gives: the fetch raises, the page has no
\* mw-parser-output div, no "Categories by type" table, or the category links.
LinkLists == {<<>>, <<"Gore">>, <<"Gore", "Monster">>, <<"Monster", "Monster">>}
IndexOf(kind, links) == [kind |-> kind, links |-> links]
Indexes ==
    {IndexOf(k, <<>>) : k \in {"unreachable", "no_parser_output", "no_section"}}
        \cup {IndexOf("links", l) : l \in LinkLists}

\* The class names of a page that pass the grammar, in page order.
RECURSIVE ValidMembers(_)
ValidMembers(members) ==
    IF members = <<>> THEN <<>>
    ELSE (IF ValidClassName(Head(members)) THEN <<Head(members)>> ELSE <<>>)
            \o ValidMembers(Tail(members))

NoVisits == [u \in PageUrls |-> 0]
UnseenPages == [u \in PageUrls |-> Unknown]

ExtractInit ==
    /\ now = 0
    /\ cache = [u \in URLS |-> NoEntry]
    /\ stats = ZeroStats
    /\ calls = 0
    /\ last = Idle
    /\ stored = [u \in URLS |-> NoStored]
    /\ gen = NotGenerating
    /\ batch = NotBatching
    /\ args = NoArgs
    /\ game = NoGame
    /\ ext = [pc |-> "index", category_links |-> <<>>, categories |-> <<>>,
              category_name |-> "", current_url |-> "", class_names |-> <<>>,
              web |-> UnseenPages, visits |-> NoVisits, raised |-> FALSE,
              index |-> "", page_fetched |-> FALSE, ended |-> "",
              skipped |-> {}]

\* The index fetch with its failure caught: an empty mapping is returned.
FetchIndexCaught(index) ==
    /\ ext.pc = "index"
    /\ ext' = IF index.kind = "links"
              THEN [ext EXCEPT !.pc = "categories", !.index = index.kind,
                               !.category_links = index.links]
              ELSE [ext EXCEPT !.pc = "returned", !.index = index.kind]
    /\ UNCHANGED <<cacheVars, gen, batch, args, game>>

\* The fetch of the Spawnable page and the search for the category links.
\* A failed fetch is not caught here.
FetchIndex(index) ==
    /\ ext.pc = "index"
    /\ ext' = CASE index.kind = "unreachable" ->
                    [ext EXCEPT !.pc = "returned", !.index = index.kind,
                                !.raised = TRUE]
                [] index.kind \in {"no_parser_output", "no_section"} ->
                    [ext EXCEPT !.pc = "returned", !.index = index.kind]
                [] OTHER ->
                    [ext EXCEPT !.pc = "categories", !.index = index.kind,
                                !.category_links = index.links]
    /\ UNCHANGED <<cacheVars, gen, batch, args, game>>

\* The next turn of `for category_name, category_href in category_links`
\* up to its while loop: the fetch of the first page.  An exception ends the
\* turn (`except Exception: continue`), and so does a page without
\* mw-category-generated.
NextCategory(page) ==
    /\ ext.pc = "categories"
    /\ ext.category_links # <<>>
    /\ LET name == Head(ext.category_links)
           turn == [ext EXCEPT !.category_links = Tail(@),
                               !.category_name = name,
                               !.page_fetched = TRUE,
                               !.class_names = <<>>,
                               !.web = UnseenPages,
                               !.visits = NoVisits]
       IN  ext' = CASE page.kind = "unreachable" ->
                        [turn EXCEPT !.ended = "exception",
                                     !.skipped = @ \cup {name}]
                    [] page.kind = "no_generated" ->
                        [turn EXCEPT !.ended = "continue"]
                    [] OTHER ->
                        [turn EXCEPT !.pc = "paginate",
                                     !.ended = "",
                                     !.current_url = FirstPage,
                                     !.web[FirstPage] = page,
                                     !.visits[FirstPage] = 1]
    /\ UNCHANGED <<cacheVars, gen, batch, args, game>>

\* The end of the while loop without the sort of the names.
EndOfLoopUnsorted(e, class_names) ==
    [e EXCEPT !.pc = "categories", !.class_names = class_names,
              !.current_url = "", !.ended = "loop_end",
              !.categories =
                  IF class_names = <<>> THEN @
                  ELSE [c \in DOMAIN @ \cup {e.category_name} |->
                            IF c = e.category_name THEN class_names
                            ELSE @[c]]]

\* After the while loop: `if class_names: categories[name] = sorted(...)`.
EndOfLoop(e, class_names) ==
    [e EXCEPT !.pc = "categories", !.class_names = class_names,
              !.current_url = "", !.ended = "loop_end",
              !.categories =
                  IF class_names = <<>> THEN @
                  ELSE [c \in DOMAIN @ \cup {e.category_name} |->
                            IF c = e.category_name THEN Sorted(class_names)
                            ELSE @[c]]]

\* One turn of `while current_url and current_soup`: the class links of the
\* current page, then the fetch of the page its next-page link names.  The
\* page fetched is the one seen before under that URL, if any.
PageStep(fetched) ==
    /\ ext.pc = "paginate"
    /\ LET page == ext.web[ext.current_url]
           names == ext.class_names \o ValidMembers(page.members)
           seen == ext.web[page.next]
       IN  IF page.kind # "listing"
           THEN /\ fetched = Unknown
                /\ ext' = EndOfLoop(ext, ext.class_names)
           ELSE IF page.next = NoLink
           THEN /\ fetched = Unknown
                /\ ext' = EndOfLoop(ext, names)
           ELSE /\ ext.visits[page.next] < MaxVisits
                /\ fetched # Unknown
                /\ seen # Unknown => fetched = seen
                /\ ext' = IF fetched.kind = "unreachable"
                          THEN [ext EXCEPT !.pc = "categories",
                                           !.class_names = <<>>,
                                           !.current_url = "",
                                           !.ended = "exception",
                                           !.skipped =
                                               @ \cup {ext.category_name}]
                          ELSE [ext EXCEPT !.class_names = names,
                                           !.current_url = page.next,
                                           !.web[page.next] = fetched,
                                           !.visits[page.next] = @ + 1]
    /\ UNCHANGED <<cacheVars, gen, batch, args, game>>

\* `return categories`
ReturnCategories ==
    /\ ext.pc = "categories"
    /\ ext.category_links = <<>>
    /\ ext' = [ext EXCEPT !.pc = "returned"]
    /\ UNCHANGED <<cacheVars, gen, batch, args, game>>

ExtractNext ==
    \/ \E index \in Indexes : FetchIndex(index)
    \/ \E page \in Pages : NextCategory(page)
    \/ \E fetched \in Pages \cup {Unknown} : PageStep(fetched)
    \/ ReturnCategories

SpecExtract == ExtractInit /\ [][ExtractNext]_vars

\* C3: for every category the pagination loop ends, whatever the pages and
\* their next-page links, and fetches no page URL twice.  While the loop
\* runs, and when it has ended, no page URL has been fetched more than once.
C3_NoPageFetchedTwice ==
    \A u \in PageUrls : ext.pc # "none" => ext.visits[u] <= 1

----------------------------------------------------------------------------
(* main over fetch_zdoom_categories_by_type *)

\* `categories = fetch_zdoom_categories_by_type(...)` in main: the mapping
\* returned, or the exception of the index fetch, which main's
\* `except Exception` turns into sys.exit(1).
Fetched ==
    /\ ext.pc = "returned"
    /\ gen.phase = "none"
    /\ gen' = IF ext.raised
              THEN [phase |-> "exit", categories |-> <<>>,
                    class_names |-> <<>>,
                    result |-> [NoResult EXCEPT !.status = "CalledProcessError"],
                    header |-> NoHeader, after |-> NoObjects,
                    again |-> NoHeader, exit_code |-> 1, copied |-> FALSE]
              ELSE [phase |-> "fetched", categories |-> ext.categories,
                    class_names |-> <<>>, result |-> NoResult,
                    header |-> NoHeader, after |-> NoObjects,
                    again |-> NoHeader, exit_code |-> Running,
                    copied |-> FALSE]
    /\ UNCHANGED <<cacheVars, ext, batch, args, game>>

MainNext == ExtractNext \/ Fetched \/ ResolveNext

SpecMain == ExtractInit /\ [][MainNext]_vars

\* C15: when the index page lacks the "Categories by type" section or its
\* container, fetch_zdoom_categories_by_type returns an empty mapping, raises
\* nothing and fetches no category page; main then exits with status 1 and
\* writes no header.
C15_MissingSectionIsSoftFailure ==
    ext.index \in {"no_parser_output", "no_section"} =>
        /\ ext.pc = "returned" /\ ~ext.raised
        /\ DOMAIN ext.categories = {}
        /\ ~ext.page_fetched
        /\ gen.phase \in {"none", "fetched", "exit"}
        /\ gen.phase # "none" => ~gen.header.written
        /\ gen.phase = "exit" => gen.result.status = "SystemExit"

\* main has exited after an index page without the section.
C15_Witness ==
    /\ ext.index = "no_section"
    /\ gen.phase = "exit" /\ gen.result.status = "SystemExit"
    /\ ~gen.header.written

\* C16: a failed fetch of a listing page of a category, the first or a later
\* one, is caught: the category is skipped, the mapping collected so far is
\* as it was and the loop goes on with the categories that remain; a failed
\* fetch of the index page is raised to the caller.
C16_PageFailureSkipsCategory ==
    [][ /\ \A page \in Pages :
              (page.kind = "unreachable" /\ NextCategory(page)) =>
                  /\ ext'.categories = ext.categories
                  /\ ext'.pc = "categories" /\ ~ext'.raised
                  /\ ext'.category_links = Tail(ext.category_links)
                  /\ Head(ext.category_links) \in ext'.skipped
        /\ \A page \in Pages :
              (page.kind = "unreachable" /\ PageStep(page)) =>
                  /\ ext'.categories = ext.categories
                  /\ ext'.pc = "categories" /\ ~ext'.raised
                  /\ ext'.category_links = ext.category_links
                  /\ ext.category_name \in ext'.skipped
        /\ \A index \in Indexes :
              (index.kind = "unreachable" /\ FetchIndex(index)) =>
                  ext'.raised /\ ext'.pc = "returned" ]_vars

\* The second page of "Gore" could not be fetched, and "Monster", which
\* came after it, is in the mapping returned while "Gore" is not.
C16_Witness ==
    /\ ext.pc = "returned" /\ ~ext.raised
    /\ ext.skipped = {"Gore"}
    /\ DOMAIN ext.categories = {"Monster"}
    /\ ext.ended = "loop_end"

\* The pages of the category just listed: each fetched once, each a listing.
ChainOfListings ==
    /\ ext.pc \in {"categories", "returned"}
    /\ ext.ended = "loop_end"
    /\ \A u \in PageUrls :
          /\ ext.visits[u] <= 1
          /\ ext.visits[u] = 1 => ext.web[u].kind = "listing"

\* The grammar-matching members of the pages of that chain.
ChainMembers ==
    UNION {{m \in {ext.web[u].members[i] : i \in DOMAIN ext.web[u].members} :
                ValidClassName(m)} :
            u \in {u \in PageUrls : ext.visits[u] = 1}}

ListedAsChainMembers ==
    /\ ext.category_name \in DOMAIN ext.categories
    /\ LET list == ext.categories[ext.category_name]
       IN  /\ {list[i] : i \in DOMAIN list} = ChainMembers
           /\ Ascending(list)

----------------------------------------------------------------------------
(* fetch_class_data: the batch over the classes *)

\* The lists of classes given; a class stands for the URL of its page.
ClassLists == {<<"u1", "u2">>, <<"u2", "u1">>, <<"u1", "u1">>}

DictNames == {"doomed_numbers", "spawn_ids", "identifiers"}

\* What the rows of a page do to the dicts before the parsing ends: the
\* dicts that get an entry for the class, and whether the parsing then
\* raises (cells[i + 1] of a row with an odd number of cells, for one).
ParseOutcomes ==
    {[wrote |-> w, error |-> e] :
        w \in {{}, {"doomed_numbers"}, DictNames}, e \in BOOLEAN}

\* A batch that stops at the class that failed.
NextClassOrAbort(b, outcome) ==
    IF outcome = "failed"
    THEN [b EXCEPT !.pc = "raised", !.log = Append(@, outcome)]
    ELSE [b EXCEPT !.next = @ + 1, !.log = Append(@, outcome)]

\* The end of a turn of `for class_name in class_names`, by the end of its
\* body or by a `continue`: the loop goes to the class that follows.
NextClass(b, outcome) ==
    [b EXCEPT !.next = @ + 1, !.log = Append(@, outcome)]

\* dict[class_name] = value, for the dicts the page writes to.  The value
\* stands for the turn that wrote it.
Recorded(b, class_name, wrote) ==
    [b EXCEPT !.entries =
        [d \in DictNames |->
            IF d \in wrote THEN [@[d] EXCEPT ![class_name] = b.next]
            ELSE @[d]]]

BatchInit ==
    /\ now = 0
    /\ cache \in FetcherCaches
    /\ stats = ZeroStats
    /\ calls = 0
    /\ last = Idle
    /\ stored = [u \in URLS |-> NoStored]
    /\ gen = NotGenerating
    /\ ext = NotExtracting
    /\ args = NoArgs
    /\ game = NoGame
    /\ \E names \in ClassLists, fr \in BOOLEAN :
          batch = [pc |-> "loop", class_names |-> names, force_refresh |-> fr,
                   next |-> 1, log |-> <<>>,
                   entries |-> [d \in DictNames |-> [u \in URLS |-> 0]]]

\* One turn of the loop: the throttled fetch of the page of the class, then
\* the rows of the page.  Every exception of the turn is caught by one of
\* the two except clauses, which `continue`; a page without mw-content-text
\* is left with `continue` too.  Content that is not a string gives no row.
BatchStep(net, outcome, parse) ==
    /\ batch.pc = "loop"
    /\ batch.next <= Len(batch.class_names)
    /\ LET class_name == batch.class_names[batch.next]
       IN  \E f \in {ClassDataIteration(cache, stats, class_name,
                                        batch.force_refresh, now, net,
                                        outcome)} :
             /\ cache' = f.cache
             /\ stats' = f.stats
             /\ (f.caught # NoExc \/ f.ret = "") =>
                    parse = [wrote |-> {}, error |-> FALSE]
             /\ f.ret \in {None, NonStr} => parse.wrote = {}
             /\ batch' =
                  IF f.caught # NoExc THEN NextClass(batch, "failed")
                  ELSE IF f.ret = "" THEN NextClass(batch, "no_content")
                  ELSE NextClass(Recorded(batch, class_name, parse.wrote),
                                 IF parse.error THEN "failed" ELSE "parsed")
    /\ UNCHANGED <<now, calls, last, stored, gen, ext, args, game>>

\* `return doomed_numbers, spawn_ids, identifiers`
BatchReturn ==
    /\ batch.pc = "loop"
    /\ batch.next > Len(batch.class_names)
    /\ batch' = [batch EXCEPT !.pc = "returned"]
    /\ UNCHANGED <<cacheVars, gen, ext, args, game>>

BatchNext ==
    \/ \E net \in NetOutcomes, o \in SetOutcomes, parse \in ParseOutcomes :
            BatchStep(net, o, parse)
    \/ BatchReturn

SpecBatch == BatchInit /\ [][BatchNext]_vars

\* C17: a failure of the fetch or of the parsing of one class never ends
\* the batch: the turn ends with the loop at the class that follows, nothing
\* is raised, the entries of the other classes are as they were, and the
\* function returns only after a turn for every class given.
C17_FailureNeverAbortsBatch ==
    [][ /\ batch'.pc \in {"loop", "returned"}
        /\ batch'.pc = "returned" =>
              Len(batch'.log) = Len(batch'.class_names)
        /\ batch'.log # batch.log =>
              /\ batch'.pc = "loop"
              /\ batch'.next = batch.next + 1
              /\ batch'.log[batch.next] \in {"failed", "no_content", "parsed"}
              /\ \A d \in DictNames, u \in URLS :
                    u # batch.class_names[batch.next] =>
                        batch'.entries[d][u] = batch.entries[d][u] ]_vars

\* The first class failed and the second, another class, was recorded.
C17_Witness ==
    /\ batch.pc = "returned"
    /\ batch.log = <<"failed", "parsed">>
    /\ batch.class_names[1] # batch.class_names[2]
    /\ batch.entries["doomed_numbers"][batch.class_names[2]] = 2
    /\ batch.entries["doomed_numbers"][batch.class_names[1]] = 0

----------------------------------------------------------------------------
(* main: the options given and the fetches of the run *)

\* parse_args: --force-refresh and --cache-only are there or not.
RunInit ==
    /\ now \in 0..MaxTime
    /\ cache \in FetcherCaches
    /\ stats = ZeroStats
    /\ calls = 0
    /\ last = Idle
    /\ stored = [u \in URLS |-> NoStored]
    /\ gen = NotGenerating
    /\ ext = NotExtracting
    /\ batch = NotBatching
    /\ args \in [force_refresh : BOOLEAN, cache_only : BOOLEAN]
    /\ game = NoGame

\* A fetch of the run: main passes force_refresh=args.force_refresh to
\* fetch_zdoom_categories_by_type, which passes it to fetch_url_with_cache;
\* args.cache_only is passed to nothing.
RunFetch(url, net, outcome) == Fetch(url, args.force_refresh, net, outcome)

RunNext ==
    \E u \in URLS, net \in NetOutcomes, o \in SetOutcomes : RunFetch(u, net, o)

SpecRun == RunInit /\ [][RunNext]_vars

\* C23: in a run with --cache-only no fetch runs curl, for any URL.
C23_CacheOnlyNeverRetrieves ==
    args.cache_only => ~Has(last.trace, "curl")

----------------------------------------------------------------------------
(* tests/test_get_state.py: a DoomGame, the states it returns and what the
   tests keep of them.  DoomGame and State are the library under test. *)

MaxFrames == 3        \* changes of the engine's frame in a run
MaxStates == 2        \* states a test keeps
EpisodeTimeout == 2   \* set_episode_timeout: actions until the episode ends

\* What the set_*_enabled calls of the tests switch on and off.
Features ==
    {"depth_buffer", "labels_buffer", "automap_buffer", "objects_info",
     "sectors_info", "audio_buffer", "notifications_buffer"}

GameVariables == {"AMMO2"}

\* The attributes of a State the tests read.
OptionalComponents ==
    {"depth_buffer", "labels_buffer", "automap_buffer", "labels", "objects",
     "sectors", "audio_buffer", "notifications_buffer", "game_variables"}

Components == {"screen_buffer"} \cup OptionalComponents

\* The order in which a State is written out.
ComponentOrder ==
    <<"screen_buffer", "depth_buffer", "labels_buffer", "automap_buffer",
      "audio_buffer", "notifications_buffer", "labels", "objects", "sectors",
      "game_variables">>

\* An attribute that is None, and one holding the engine's data of a frame.
NoneValue == [present |-> FALSE, frame |-> 0]
ValueAt(frame) == [present |-> TRUE, frame |-> frame]

\* What makes a component of the State available: labels come with the
\* labels buffer, objects and sectors with their info, game_variables with
\* any variable added.
Requested(enabled, variables, c) ==
    CASE c = "screen_buffer" -> TRUE
      [] c = "labels" -> "labels_buffer" \in enabled
      [] c = "objects" -> "objects_info" \in enabled
      [] c = "sectors" -> "sectors_info" \in enabled
      [] c = "game_variables" -> variables # {}
      [] OTHER -> c \in enabled

\* A get_state() that fills every attribute, requested or not.
GetStateWithEveryComponent(enabled, variables, frame) ==
    [c \in Components |-> ValueAt(frame)]

\* get_state() of a running game whose episode is not finished: the screen
\* buffer and every requested component, taken from the current frame.
GetState(enabled, variables, frame) ==
    [c \in Components |->
        IF Requested(enabled, variables, c) THEN ValueAt(frame)
                                            ELSE NoneValue]

\* The states returned so far sharing their buffers with the engine: the
\* latest one shows the frame the engine is at.
ReturnedStatesSharing(states, enabled, variables, frame) ==
    IF states = <<>> THEN states
    ELSE [states EXCEPT ![Len(states)] = GetState(enabled, variables, frame)]

\* The states returned so far once the engine moved to another frame: a
\* State owns its data, so they are as they were.
ReturnedStates(states, enabled, variables, frame) == states

\* pickle.dumps of a State and pickle.loads of the bytes: the attributes
\* are written in a fixed order and read back in that order.
Dumps(state) == [i \in DOMAIN ComponentOrder |-> state[ComponentOrder[i]]]
Loads(bytes) ==
    [c \in Components |->
        bytes[CHOOSE i \in DOMAIN ComponentOrder : ComponentOrder[i] = c]]

\* `buffers` of _test_get_state: the attributes it copies and compares.
BuffersOf(enabled) ==
    {"screen_buffer"} \cup
        (enabled \cap {"depth_buffer", "labels_buffer", "automap_buffer",
                       "audio_buffer"})

\* np.copy of each attribute in `buffers`.
CopiesOf(state, enabled) == [b \in BuffersOf(enabled) |-> state[b]]

\* game = vzd.DoomGame()
GameInit ==
    /\ now = 0
    /\ cache = [u \in URLS |-> NoEntry]
    /\ stats = ZeroStats
    /\ calls = 0
    /\ last = Idle
    /\ stored = [u \in URLS |-> NoStored]
    /\ gen = NotGenerating
    /\ ext = NotExtracting
    /\ batch = NotBatching
    /\ args = NoArgs
    /\ game = [pc |-> "configuring", enabled |-> {}, variables |-> {},
               frame |-> 0, actions |-> 0, finished |-> FALSE,
               states |-> <<>>, copies |-> <<>>, pickled_states |-> <<>>]

\* game.set_depth_buffer_enabled(value) and the like, before init().
SetEnabled(feature, value) ==
    /\ game.pc = "configuring"
    /\ game' = [game EXCEPT !.enabled = IF value THEN @ \cup {feature}
                                                  ELSE @ \ {feature}]
    /\ UNCHANGED <<cacheVars, gen, ext, batch, args>>

\* game.add_available_game_variable(variable), before init().
AddAvailableGameVariable(variable) ==
    /\ game.pc = "configuring"
    /\ game' = [game EXCEPT !.variables = @ \cup {variable}]
    /\ UNCHANGED <<cacheVars, gen, ext, batch, args>>

\* game.init(): the game runs and its first episode has begun.
InitGame ==
    /\ game.pc = "configuring"
    /\ game' = [game EXCEPT !.pc = "running"]
    /\ UNCHANGED <<cacheVars, gen, ext, batch, args>>

\* game.new_episode(): the engine starts over with another frame.
NewEpisode ==
    /\ game.pc = "running"
    /\ game.frame < MaxFrames
    /\ game' = [game EXCEPT
                   !.frame = @ + 1, !.actions = 0, !.finished = FALSE,
                   !.states = ReturnedStates(@, game.enabled, game.variables,
                                             game.frame + 1)]
    /\ UNCHANGED <<cacheVars, gen, ext, batch, args>>

\* state = game.get_state(); states.append(state); the copies of its
\* buffers are appended to buffers_copies.
KeepState ==
    /\ game.pc = "running"
    /\ ~game.finished
    /\ Len(game.states) < MaxStates
    /\ \E state \in {GetState(game.enabled, game.variables, game.frame)} :
          game' = [game EXCEPT
                      !.states = Append(@, state),
                      !.copies = Append(@, CopiesOf(state, game.enabled))]
    /\ UNCHANGED <<cacheVars, gen, ext, batch, args>>

\* game.make_action(action, 4): the engine moves on to another frame, and
\* the episode ends at its timeout.
MakeAction ==
    /\ game.pc = "running"
    /\ ~game.finished
    /\ game.frame < MaxFrames
    /\ game' = [game EXCEPT
                   !.frame = @ + 1, !.actions = @ + 1,
                   !.finished = (game.actions + 1 >= EpisodeTimeout),
                   !.states = ReturnedStates(@, game.enabled, game.variables,
                                             game.frame + 1)]
    /\ UNCHANGED <<cacheVars, gen, ext, batch, args>>

\* pickle.dump(states, f); pickled_states = pickle.load(f)
PickleStates ==
    /\ game.pc = "running"
    /\ game.states # <<>>
    /\ game.pickled_states = <<>>
    /\ game' = [game EXCEPT
                   !.pickled_states =
                       [i \in DOMAIN game.states |->
                           Loads(Dumps(game.states[i]))]]
    /\ UNCHANGED <<cacheVars, gen, ext, batch, args>>

GameNext ==
    \/ \E f \in Features, v \in BOOLEAN : SetEnabled(f, v)
    \/ \E v \in GameVariables : AddAvailableGameVariable(v)
    \/ InitGame
    \/ NewEpisode
    \/ KeepState
    \/ MakeAction
    \/ PickleStates

SpecGame == GameInit /\ [][GameNext]_vars

====
